---- MODULE Spec2Model ----
(***************************************************************************)
(* A model of the blist crate: BArrayVec (src/src/list.rs), a non-empty    *)
(* fixed-capacity ordered buffer, and Node / LinkedLists (src/src/lib.rs), *)
(* the chain of buffers built on it.                                       *)
(*                                                                         *)
(* Indices are 0-based as in the source.  A BArrayVec is the record        *)
(* [len, buf] with buf an array over 0..N-1 whose slots at and after len   *)
(* are uninitialised.  An Option<T> is a sequence of length at most one.   *)
(* The chain root -> next -> next ... is the sequence of the nodes' items, *)
(* head first; the empty sequence is None.                                 *)
(***************************************************************************)
EXTENDS Integers, Sequences, FiniteSets

VARIABLES
    N,          \* the const generic capacity of the build
    root,       \* LinkedLists.root and the chain hanging from it
    len,        \* LinkedLists.len
    inserted,   \* ghost: how many times each value was passed to insert
    fault,      \* "none", or how the program stopped: "panic", "ub"
    root_b,     \* a second container of the same build (root)
    len_b,      \* a second container of the same build (len)
    inserted_b, \* ghost of the second container
    vec,        \* a BArrayVec used on its own, as the unit tests do
    last,       \* ghost: the last call made on vec, its argument and result
    steps,      \* ghost: what each buffer visited by the last insert answered
    pc          \* how many of its insert calls the example's main has made

vars == <<N, root, len, inserted, fault, root_b, len_b, inserted_b, vec, last,
          steps, pc>>

----------------------------------------------------------------------------
(* Bounds of the model. *)

MaxN == 3
MaxVal == 5
MaxOps == 7
MaxPairOps == 4
MaxCap == 257

(* Program constants. *)

u8_MAX == 255
u8_WIDTH == 256

Values == 1..MaxVal

(* The content of a slot of [MaybeUninit<T>; N] that was never written: a   *)
(* number that no run of the model stores as an element.                    *)
Uninit == -1000

None == <<>>
Some(x) == <<x>>

----------------------------------------------------------------------------
(* BArrayVec: the buffer primitives of src/src/list.rs. *)

BArrayVec_len(self) == self.len

(* Deref: the slice of the first len slots, as a sequence. *)
deref(self) == [i \in 1..BArrayVec_len(self) |-> self.buf[i - 1]]

set_len(self, new_len) == [self EXCEPT !.len = new_len % u8_WIDTH]

min(self) == deref(self)[1]

max(self) == deref(self)[BArrayVec_len(self)]

(* A variant of is_full that answers one element early. *)
is_full_early(self) == BArrayVec_len(self) >= N - 1

is_full(self) == BArrayVec_len(self) = N

(* BArrayVec::new: the capacity assertion, then one written slot. *)
BArrayVec_new(item) ==
    IF ~(N # 0 /\ N < u8_MAX)
    THEN [fault |-> "panic", vec |-> [len |-> 0, buf |-> <<>>]]
    ELSE [fault |-> "none",
          vec |-> [len |-> 1,
                   buf |-> [i \in 0..(N - 1) |-> IF i = 0 THEN item ELSE Uninit]]]

(* A variant of _push that writes over the last element, not after it. *)
_push_overwrites_last(self, item) ==
    IF ~is_full(self)
    THEN [ok |-> TRUE, val |-> None, fault |-> "none",
          vec |-> set_len([self EXCEPT !.buf[BArrayVec_len(self) - 1] = item],
                          BArrayVec_len(self) + 1)]
    ELSE [ok |-> FALSE, val |-> Some(item), fault |-> "none", vec |-> self]

(* _push: append when there is room, else hand the item back. *)
_push(self, item) ==
    IF ~is_full(self)
    THEN [ok |-> TRUE, val |-> None, fault |-> "none",
          vec |-> set_len([self EXCEPT !.buf[BArrayVec_len(self)] = item],
                          BArrayVec_len(self) + 1)]
    ELSE [ok |-> FALSE, val |-> Some(item), fault |-> "none", vec |-> self]

(* A variant of ptr_copy that moves one element too few. *)
ptr_copy_short(buf, index, count) ==
    [i \in DOMAIN buf |->
        IF i >= index + 1 /\ i <= index + count - 1 THEN buf[i - 1] ELSE buf[i]]

(* ptr::copy(ptr, ptr.add(1), count) with ptr = as_mut_ptr().add(index). *)
ptr_copy(buf, index, count) ==
    [i \in DOMAIN buf |->
        IF i >= index + 1 /\ i <= index + count THEN buf[i - 1] ELSE buf[i]]

(* A variant of _insert that grows the length even when the buffer is full. *)
_insert_always_grow(self, index, item) ==
    IF ~(index < BArrayVec_len(self))
    THEN [val |-> None, fault |-> "panic", vec |-> self]
    ELSE LET ret  == IF is_full(self) THEN Some(max(self)) ELSE None
             grown == set_len(self, BArrayVec_len(self) + 1)
             moved == ptr_copy(grown.buf, index,
                               BArrayVec_len(grown) - index - 1)
         IN  [val |-> ret, fault |-> "none",
              vec |-> [grown EXCEPT !.buf = [moved EXCEPT ![index] = item]]]

(* A variant of _insert that hands back the minimum of a full buffer. *)
_insert_returns_min(self, index, item) ==
    IF ~(index < BArrayVec_len(self))
    THEN [val |-> None, fault |-> "panic", vec |-> self]
    ELSE LET ret   == IF is_full(self) THEN Some(min(self)) ELSE None
             grown == IF is_full(self)
                      THEN self
                      ELSE set_len(self, BArrayVec_len(self) + 1)
             moved == ptr_copy(grown.buf, index,
                               BArrayVec_len(grown) - index - 1)
         IN  [val |-> ret, fault |-> "none",
              vec |-> [grown EXCEPT !.buf = [moved EXCEPT ![index] = item]]]

(* _insert: insert at index, shifting right; a full buffer loses its last. *)
_insert(self, index, item) ==
    IF ~(index < BArrayVec_len(self))
    THEN [val |-> None, fault |-> "panic", vec |-> self]
    ELSE LET ret  == IF is_full(self) THEN Some(max(self)) ELSE None
             grown == IF is_full(self)
                      THEN self
                      ELSE set_len(self, BArrayVec_len(self) + 1)
             moved == ptr_copy(grown.buf, index,
                               BArrayVec_len(grown) - index - 1)
         IN  [val |-> ret, fault |-> "none",
              vec |-> [grown EXCEPT !.buf = [moved EXCEPT ![index] = item]]]

(* A variant of _push_front that writes the item at the end. *)
_push_front_at_end(self, item) ==
    IF is_full(self)
    THEN [ok |-> FALSE, val |-> Some(item), fault |-> "none", vec |-> self]
    ELSE _push(self, item)

(* _push_front: insert at 0 when there is room, else hand the item back. *)
_push_front(self, item) ==
    IF is_full(self)
    THEN [ok |-> FALSE, val |-> Some(item), fault |-> "none", vec |-> self]
    ELSE LET r == _insert(self, 0, item)
         IN  IF r.fault # "none"
             THEN [ok |-> FALSE, val |-> None, fault |-> r.fault, vec |-> r.vec]
             ELSE IF r.val # None
             THEN [ok |-> FALSE, val |-> None, fault |-> "ub", vec |-> r.vec]
             ELSE [ok |-> TRUE, val |-> None, fault |-> "none", vec |-> r.vec]

IsAscending(s) == \A i \in 1..(Len(s) - 1) : s[i] <= s[i + 1]

(* slice::binary_search: every result the library's contract allows.  On an *)
(* ascending slice: Ok(i) for any i holding an equal element, else Err(i)   *)
(* with i the insertion point.  On any other slice the result is            *)
(* unspecified.                                                             *)
binary_search(s, x) ==
    LET found == {i \in 0..(Len(s) - 1) : s[i + 1] = x}
    IN  IF ~IsAscending(s)
        THEN [ok : BOOLEAN, index : 0..Len(s)]
        ELSE IF found # {}
        THEN {[ok |-> TRUE, index |-> i] : i \in found}
        ELSE {[ok |-> FALSE,
               index |-> Cardinality({i \in 1..Len(s) : s[i] < x})]}

(* A variant of BArrayVec::insert without the append fast path: an item     *)
(* above the maximum goes to the binary search like any other.              *)
BArrayVec_insert_no_append(self, item) ==
    IF item < min(self)
    THEN LET r == _push_front(self, item)
         IN  {[tag |-> IF r.ok THEN "Ok" ELSE "Err", val |-> r.val,
               ord |-> IF r.ok \/ r.fault # "none" THEN "-" ELSE "Less",
               fault |-> r.fault, vec |-> r.vec]}
    ELSE {LET r == _insert(self, b.index, item)
          IN  [tag |-> "Ok", val |-> r.val, ord |-> "-",
               fault |-> r.fault, vec |-> r.vec]
          : b \in binary_search(deref(self), item)}

(* BArrayVec::insert: the set of results the call can have, each            *)
(* [tag, val, ord, fault, vec]: Ok(val) or Err((val[1], ord)), and self     *)
(* after the call.                                                          *)
BArrayVec_insert(self, item) ==
    IF item > max(self)
    THEN LET r == _push(self, item)
         IN  {[tag |-> IF r.ok THEN "Ok" ELSE "Err", val |-> r.val,
               ord |-> IF r.ok THEN "-" ELSE "Greater",
               fault |-> r.fault, vec |-> r.vec]}
    ELSE IF item < min(self)
    THEN LET r == _push_front(self, item)
         IN  {[tag |-> IF r.ok THEN "Ok" ELSE "Err", val |-> r.val,
               ord |-> IF r.ok \/ r.fault # "none" THEN "-" ELSE "Less",
               fault |-> r.fault, vec |-> r.vec]}
    ELSE {LET r == _insert(self, b.index, item)
          IN  [tag |-> "Ok", val |-> r.val, ord |-> "-",
               fault |-> r.fault, vec |-> r.vec]
          : b \in binary_search(deref(self), item)}

(* A variant of BArrayVec::find that takes the insertion point of a failed  *)
(* search for a position too.                                               *)
BArrayVec_find_any_index(self, item) ==
    IF item > max(self)
    THEN {[tag |-> "Err", val |-> None, ord |-> "Greater"]}
    ELSE IF item < min(self)
    THEN {[tag |-> "Err", val |-> None, ord |-> "Less"]}
    ELSE {[tag |-> "Ok", val |-> Some(b.index), ord |-> "-"]
          : b \in binary_search(deref(self), item)}

(* A variant of BArrayVec::find that does not test the item against min. *)
BArrayVec_find_no_less(self, item) ==
    IF item > max(self)
    THEN {[tag |-> "Err", val |-> None, ord |-> "Greater"]}
    ELSE {[tag |-> "Ok", val |-> IF b.ok THEN Some(b.index) ELSE None,
           ord |-> "-"]
          : b \in binary_search(deref(self), item)}

(* BArrayVec::find: Ok(Some(index)), Ok(None) or Err(ord), as [tag, val, ord]. *)
BArrayVec_find(self, item) ==
    IF item > max(self)
    THEN {[tag |-> "Err", val |-> None, ord |-> "Greater"]}
    ELSE IF item < min(self)
    THEN {[tag |-> "Err", val |-> None, ord |-> "Less"]}
    ELSE {[tag |-> "Ok", val |-> IF b.ok THEN Some(b.index) ELSE None,
           ord |-> "-"]
          : b \in binary_search(deref(self), item)}

----------------------------------------------------------------------------
(* Node and LinkedLists: the chain of src/src/lib.rs. *)

Node_new(item) == BArrayVec_new(item)

(* The outcome of a BArrayVec::insert, by the name the buffer's contract    *)
(* gives it.                                                                *)
Outcome(r) ==
    IF r.tag = "Ok"
    THEN IF r.val = None THEN "Absorbed" ELSE "Evicted"
    ELSE r.ord

(* A variant of Node::insert whose Less branch links the new node behind    *)
(* this one instead of swapping it into this one's place.                   *)
RECURSIVE Node_insert_splice_behind(_, _)
Node_insert_splice_behind(chain, item) ==
    UNION {
        IF r.fault # "none"
        THEN {[chain |-> chain, fault |-> r.fault, path |-> <<>>]}
        ELSE IF r.tag = "Err" /\ r.ord = "Less"
        THEN LET node == Node_new(r.val[1])
             IN  {[chain |-> <<r.vec>> \o <<node.vec>> \o Tail(chain),
                   fault |-> node.fault, path |-> <<Outcome(r)>>]}
        ELSE IF (r.tag = "Err" /\ r.ord = "Greater")
                \/ (r.tag = "Ok" /\ r.val # None)
        THEN IF Tail(chain) # <<>>
             THEN {[chain |-> <<r.vec>> \o t.chain, fault |-> t.fault,
                    path |-> <<Outcome(r)>> \o t.path]
                   : t \in Node_insert_splice_behind(Tail(chain), r.val[1])}
             ELSE LET node == Node_new(r.val[1])
                  IN  {[chain |-> <<r.vec, node.vec>>, fault |-> node.fault,
                        path |-> <<Outcome(r)>>]}
        ELSE {[chain |-> <<r.vec>> \o Tail(chain), fault |-> "none",
               path |-> <<Outcome(r)>>]}
        : r \in BArrayVec_insert(Head(chain), item)}

(* A variant of Node::insert that never hands the item on to its            *)
(* successor: it links a new node right behind itself instead.              *)
Node_insert_no_cascade(chain, item) ==
    UNION {
        IF r.fault # "none"
        THEN {[chain |-> chain, fault |-> r.fault, path |-> <<>>]}
        ELSE IF r.tag = "Err" /\ r.ord = "Less"
        THEN LET node == Node_new(r.val[1])
             IN  {[chain |-> <<node.vec>> \o <<r.vec>> \o Tail(chain),
                   fault |-> node.fault, path |-> <<Outcome(r)>>]}
        ELSE IF (r.tag = "Err" /\ r.ord = "Greater")
                \/ (r.tag = "Ok" /\ r.val # None)
        THEN LET node == Node_new(r.val[1])
             IN  {[chain |-> <<r.vec, node.vec>> \o Tail(chain),
                   fault |-> node.fault, path |-> <<Outcome(r)>>]}
        ELSE {[chain |-> <<r.vec>> \o Tail(chain), fault |-> "none",
               path |-> <<Outcome(r)>>]}
        : r \in BArrayVec_insert(Head(chain), item)}

(* A variant of Node::insert whose Less branch swaps the two nodes' items   *)
(* only, so that the old successor link is overwritten by the new one.      *)
RECURSIVE Node_insert_swap_items_only(_, _)
Node_insert_swap_items_only(chain, item) ==
    UNION {
        IF r.fault # "none"
        THEN {[chain |-> chain, fault |-> r.fault, path |-> <<>>]}
        ELSE IF r.tag = "Err" /\ r.ord = "Less"
        THEN LET node == Node_new(r.val[1])
             IN  {[chain |-> <<node.vec>> \o <<r.vec>>,
                   fault |-> node.fault, path |-> <<Outcome(r)>>]}
        ELSE IF (r.tag = "Err" /\ r.ord = "Greater")
                \/ (r.tag = "Ok" /\ r.val # None)
        THEN IF Tail(chain) # <<>>
             THEN {[chain |-> <<r.vec>> \o t.chain, fault |-> t.fault,
                    path |-> <<Outcome(r)>> \o t.path]
                   : t \in Node_insert_swap_items_only(Tail(chain), r.val[1])}
             ELSE LET node == Node_new(r.val[1])
                  IN  {[chain |-> <<r.vec, node.vec>>, fault |-> node.fault,
                        path |-> <<Outcome(r)>>]}
        ELSE {[chain |-> <<r.vec>> \o Tail(chain), fault |-> "none",
               path |-> <<Outcome(r)>>]}
        : r \in BArrayVec_insert(Head(chain), item)}

(* A variant of Node::insert whose new-successor assignment lost its else:  *)
(* it runs after the recursion too and overwrites the successor link.       *)
Node_insert_missing_else(chain, item) ==
    UNION {
        IF r.fault # "none"
        THEN {[chain |-> chain, fault |-> r.fault, path |-> <<>>]}
        ELSE IF r.tag = "Err" /\ r.ord = "Less"
        THEN LET node == Node_new(r.val[1])
             IN  {[chain |-> <<node.vec>> \o <<r.vec>> \o Tail(chain),
                   fault |-> node.fault, path |-> <<Outcome(r)>>]}
        ELSE IF (r.tag = "Err" /\ r.ord = "Greater")
                \/ (r.tag = "Ok" /\ r.val # None)
        THEN LET node == Node_new(r.val[1])
             IN  {[chain |-> <<r.vec, node.vec>>, fault |-> node.fault,
                   path |-> <<Outcome(r)>>]}
        ELSE {[chain |-> <<r.vec>> \o Tail(chain), fault |-> "none",
               path |-> <<Outcome(r)>>]}
        : r \in BArrayVec_insert(Head(chain), item)}

(* A variant of Node::insert that forgets the maximum a full buffer evicts. *)
RECURSIVE Node_insert_drop_evicted(_, _)
Node_insert_drop_evicted(chain, item) ==
    UNION {
        IF r.fault # "none"
        THEN {[chain |-> chain, fault |-> r.fault, path |-> <<>>]}
        ELSE IF r.tag = "Err" /\ r.ord = "Less"
        THEN LET node == Node_new(r.val[1])
             IN  {[chain |-> <<node.vec>> \o <<r.vec>> \o Tail(chain),
                   fault |-> node.fault, path |-> <<Outcome(r)>>]}
        ELSE IF r.tag = "Err" /\ r.ord = "Greater"
        THEN IF Tail(chain) # <<>>
             THEN {[chain |-> <<r.vec>> \o t.chain, fault |-> t.fault,
                    path |-> <<Outcome(r)>> \o t.path]
                   : t \in Node_insert_drop_evicted(Tail(chain), r.val[1])}
             ELSE LET node == Node_new(r.val[1])
                  IN  {[chain |-> <<r.vec, node.vec>>, fault |-> node.fault,
                        path |-> <<Outcome(r)>>]}
        ELSE {[chain |-> <<r.vec>> \o Tail(chain), fault |-> "none",
               path |-> <<Outcome(r)>>]}
        : r \in BArrayVec_insert(Head(chain), item)}

(* Node::insert on the node chain[1], whose next is Tail(chain): the set of *)
(* [chain, fault, path] the call can leave, path being the outcomes of the  *)
(* buffers it went through, in order.                                       *)
RECURSIVE Node_insert(_, _)
Node_insert(chain, item) ==
    UNION {
        IF r.fault # "none"
        THEN {[chain |-> chain, fault |-> r.fault, path |-> <<>>]}
        ELSE IF r.tag = "Err" /\ r.ord = "Less"
        THEN \* the new node takes this place; the old self is boxed behind it
             LET node == Node_new(r.val[1])
             IN  {[chain |-> <<node.vec>> \o <<r.vec>> \o Tail(chain),
                   fault |-> node.fault, path |-> <<Outcome(r)>>]}
        ELSE IF (r.tag = "Err" /\ r.ord = "Greater")
                \/ (r.tag = "Ok" /\ r.val # None)
        THEN IF Tail(chain) # <<>>
             THEN {[chain |-> <<r.vec>> \o t.chain, fault |-> t.fault,
                    path |-> <<Outcome(r)>> \o t.path]
                   : t \in Node_insert(Tail(chain), r.val[1])}
             ELSE LET node == Node_new(r.val[1])
                  IN  {[chain |-> <<r.vec, node.vec>>, fault |-> node.fault,
                        path |-> <<Outcome(r)>>]}
        ELSE {[chain |-> <<r.vec>> \o Tail(chain), fault |-> "none",
               path |-> <<Outcome(r)>>]}
        : r \in BArrayVec_insert(Head(chain), item)}

(* Node::find: the set of Option<usize> the call can return. *)
RECURSIVE Node_find(_, _)
Node_find(chain, item) ==
    UNION {
        IF r.tag = "Ok"
        THEN {r.val}
        ELSE IF r.ord = "Greater"
        THEN IF Tail(chain) = <<>> THEN {None} ELSE Node_find(Tail(chain), item)
        ELSE {None}
        : r \in BArrayVec_find(Head(chain), item)}

Node_contains(chain, item) == {f # None : f \in Node_find(chain, item)}

(* LinkedLists::new *)
LinkedLists_new == [root |-> None, len |-> 0]

(* A variant of LinkedLists::insert that counts only the inserts made      *)
(* through an existing root.                                                *)
LinkedLists_insert_uncounted_root(self, item) ==
    IF self.root # None
    THEN {[root |-> r.chain,
           len |-> IF r.fault = "none" THEN self.len + 1 ELSE self.len,
           fault |-> r.fault, path |-> r.path]
          : r \in Node_insert(self.root, item)}
    ELSE LET node == Node_new(item)
         IN  {[root |-> IF node.fault = "none" THEN <<node.vec>> ELSE self.root,
               len |-> self.len, fault |-> node.fault, path |-> <<>>]}

(* LinkedLists::insert on self = [root, len]: the set of                    *)
(* [root, len, fault, path].                                                *)
LinkedLists_insert(self, item) ==
    IF self.root # None
    THEN {[root |-> r.chain,
           len |-> IF r.fault = "none" THEN self.len + 1 ELSE self.len,
           fault |-> r.fault, path |-> r.path]
          : r \in Node_insert(self.root, item)}
    ELSE LET node == Node_new(item)
         IN  IF node.fault # "none"
             THEN {[root |-> self.root, len |-> self.len,
                    fault |-> node.fault, path |-> <<>>]}
             ELSE {[root |-> <<node.vec>>, len |-> self.len + 1,
                    fault |-> "none", path |-> <<>>]}

LinkedLists_find(self, item) ==
    IF self.root = None THEN {None} ELSE Node_find(self.root, item)

LinkedLists_contains(self, item) ==
    {f # None : f \in LinkedLists_find(self, item)}

LinkedLists_len(self) == self.len

----------------------------------------------------------------------------
(* The states and the steps. *)

NoVec == [len |-> 0, buf |-> <<>>]

NoCall == [op |-> "none", arg |-> None, old |-> NoVec,
           tag |-> "-", val |-> None, ord |-> "-"]

NoneInserted == [v \in Values |-> 0]

this == [root |-> root, len |-> len]

this_b == [root |-> root_b, len |-> len_b]

(* A call of LinkedLists::insert on the first container. *)
Insert(item, bound) ==
    /\ fault = "none"
    /\ len < bound
    /\ len_b = 0
    /\ \E r \in LinkedLists_insert(this, item) :
          /\ root' = r.root
          /\ len' = r.len
          /\ fault' = r.fault
          /\ steps' = r.path
    /\ inserted' = [inserted EXCEPT ![item] = @ + 1]
    /\ UNCHANGED <<N, root_b, len_b, inserted_b, vec, last, pc>>

(* A call of LinkedLists::insert on the second container, which is given a  *)
(* permutation of what the first was given.                                 *)
Insert_b(item) ==
    /\ fault = "none"
    /\ inserted_b[item] < inserted[item]
    /\ \E r \in LinkedLists_insert(this_b, item) :
          /\ root_b' = r.root
          /\ len_b' = r.len
          /\ fault' = r.fault
    /\ inserted_b' = [inserted_b EXCEPT ![item] = @ + 1]
    /\ UNCHANGED <<N, root, len, inserted, vec, last, steps, pc>>

(* A call of BArrayVec::insert on the buffer used on its own. *)
VecInsert(item) ==
    /\ fault = "none"
    /\ vec # NoVec
    /\ \E r \in BArrayVec_insert(vec, item) :
          /\ vec' = r.vec
          /\ fault' = r.fault
          /\ last' = [op |-> "insert", arg |-> Some(item), old |-> vec,
                      tag |-> r.tag, val |-> r.val, ord |-> r.ord]
    /\ UNCHANGED <<N, root, len, inserted, root_b, len_b, inserted_b, steps, pc>>

(* A call of BArrayVec::new. *)
Construct(item) ==
    /\ fault = "none"
    /\ vec = NoVec
    /\ LET r == BArrayVec_new(item)
       IN  /\ vec' = r.vec
           /\ fault' = r.fault
           /\ last' = [NoCall EXCEPT !.op = "new", !.arg = Some(item)]
    /\ UNCHANGED <<N, root, len, inserted, root_b, len_b, inserted_b, steps, pc>>

Idle ==
    /\ root = None /\ len = 0 /\ inserted = NoneInserted
    /\ root_b = None /\ len_b = 0 /\ inserted_b = NoneInserted
    /\ fault = "none"
    /\ last = NoCall
    /\ steps = <<>>
    /\ pc = 0

(* One container, fresh, of any capacity of the model. *)
Init ==
    /\ N \in 1..MaxN
    /\ Idle
    /\ vec = NoVec

Next == \E item \in Values : Insert(item, MaxOps)

Spec == Init /\ [][Next]_vars

(* Two fresh containers of one capacity. *)
NextPair ==
    \E item \in Values : Insert(item, MaxPairOps) \/ Insert_b(item)

SpecPair == Init /\ [][NextPair]_vars

(* One buffer, as BArrayVec::new(item) leaves it. *)
InitBuf ==
    /\ N \in 1..MaxN
    /\ Idle
    /\ \E item \in Values : vec = BArrayVec_new(item).vec

NextBuf == \E item \in Values : VecInsert(item)

SpecBuf == InitBuf /\ [][NextBuf]_vars

(* A call of BArrayVec::_push on the lone buffer. *)
VecPush(item) ==
    /\ fault = "none"
    /\ vec # NoVec
    /\ LET r == _push(vec, item)
       IN  /\ vec' = r.vec
           /\ fault' = r.fault
           /\ last' = [op |-> "push", arg |-> Some(item), old |-> vec,
                       tag |-> IF r.ok THEN "Ok" ELSE "Err",
                       val |-> r.val, ord |-> "-"]
    /\ UNCHANGED <<N, root, len, inserted, root_b, len_b, inserted_b, steps, pc>>

(* A call of BArrayVec::_push_front on the lone buffer. *)
VecPushFront(item) ==
    /\ fault = "none"
    /\ vec # NoVec
    /\ LET r == _push_front(vec, item)
       IN  /\ vec' = r.vec
           /\ fault' = r.fault
           /\ last' = [op |-> "push_front", arg |-> Some(item), old |-> vec,
                       tag |-> IF r.ok THEN "Ok" ELSE "Err",
                       val |-> r.val, ord |-> "-"]
    /\ UNCHANGED <<N, root, len, inserted, root_b, len_b, inserted_b, steps, pc>>

(* A lone buffer driven through its two end-insert helpers, as the tests    *)
(* test_push and test_push_front drive it, in any interleaving.             *)
InitEnds ==
    /\ N \in 1..MaxN
    /\ Idle
    /\ \E item \in Values : vec = BArrayVec_new(item).vec

NextEnds ==
    \/ \E item \in Values : VecPush(item)
    \/ \E item \in Values : VecPushFront(item)

SpecEnds == InitEnds /\ [][NextEnds]_vars

(* The construction of a buffer, for every capacity up to MaxCap. *)
InitCap ==
    /\ N \in 0..MaxCap
    /\ Idle
    /\ vec = NoVec

NextCap == \E item \in Values : Construct(item)

SpecCap == InitCap /\ [][NextCap]_vars

(* The example program: a container of capacity 15 given every integer     *)
(* from -50 to 49, then every integer from -5 to 14, then 2 fifty times.    *)
DemoN == 15

DemoItems ==
    [k \in 1..100 |-> k - 51] \o [k \in 1..20 |-> k - 6] \o [k \in 1..50 |-> 2]

(* The next list.insert(..) of main. *)
MainStep ==
    /\ fault = "none"
    /\ pc < Len(DemoItems)
    /\ \E r \in LinkedLists_insert(this, DemoItems[pc + 1]) :
          /\ root' = r.root
          /\ len' = r.len
          /\ fault' = r.fault
          /\ steps' = r.path
    /\ pc' = pc + 1
    /\ UNCHANGED <<N, inserted, root_b, len_b, inserted_b, vec, last>>

InitDemo ==
    /\ N = DemoN
    /\ Idle
    /\ vec = NoVec

NextDemo == MainStep

SpecDemo == InitDemo /\ [][NextDemo]_vars

----------------------------------------------------------------------------
(* What the claims speak of. *)

(* The buffers of a chain, head to tail, one after the other. *)
RECURSIVE Concat(_)
Concat(chain) ==
    IF chain = <<>> THEN <<>> ELSE deref(Head(chain)) \o Concat(Tail(chain))

(* How many times v occurs in the sequence s. *)
Count(s, v) == Cardinality({i \in 1..Len(s) : s[i] = v})

(* The ascending sequence holding each value v of 1..top cnt[v] times. *)
RECURSIVE SortedUpTo(_, _)
SortedUpTo(cnt, top) ==
    IF top = 0
    THEN <<>>
    ELSE SortedUpTo(cnt, top - 1) \o [i \in 1..cnt[top] |-> top]

SortedSeq(cnt) == SortedUpTo(cnt, MaxVal)

RECURSIVE TotalUpTo(_, _)
TotalUpTo(cnt, top) ==
    IF top = 0 THEN 0 ELSE TotalUpTo(cnt, top - 1) + cnt[top]

(* The number of insert calls a ghost count stands for. *)
Total(cnt) == TotalUpTo(cnt, MaxVal)

(* C1. Sortedness: after any sequence of insert calls on a fresh container, *)
(* the buffers of the chain, concatenated head to tail, are exactly the     *)
(* ascending sequence of all the inserted elements.                         *)
C1_Sortedness ==
    fault = "none" => Concat(root) = SortedSeq(inserted)

(* C2. Lookup correctness: after any sequence of insert calls, contains(x)  *)
(* is true if and only if x was inserted at least once, for every x.        *)
C2_LookupCorrectness ==
    fault = "none" =>
        \A x \in Values :
            \A c \in LinkedLists_contains(this, x) : c <=> inserted[x] > 0

(* C3. Global ordering: every element held by a chain node is strictly less *)
(* than every element held by any later node.  Stated here for the runs     *)
(* that passed no value to insert twice, which the claim covers too; with   *)
(* a value inserted twice by a build of capacity 1 the two equal elements   *)
(* sit in two nodes, whatever the code.                                     *)
C3_GlobalOrdering ==
    (fault = "none" /\ \A v \in Values : inserted[v] <= 1) =>
        \A i \in 1..Len(root) : \A j \in (i + 1)..Len(root) :
            \A a \in 1..BArrayVec_len(root[i]) :
                \A b \in 1..BArrayVec_len(root[j]) :
                    deref(root[i])[a] < deref(root[j])[b]

(* C4. No insertion is lost and no duplicate is collapsed: the multiset of  *)
(* the elements stored across all the chain's buffers is the multiset of    *)
(* the values passed to insert.                                             *)
C4_NothingLost ==
    fault = "none" =>
        \A v \in Values \cup {Uninit} :
            Count(Concat(root), v) = IF v \in Values THEN inserted[v] ELSE 0

(* An insert went through a full buffer that evicted its maximum, and the   *)
(* chain holds a value more than once, over more than one node.             *)
C4_Witness ==
    /\ fault = "none"
    /\ \E k \in 1..Len(steps) : steps[k] = "Evicted"
    /\ \E k \in 1..Len(steps) : steps[k] = "Less"
    /\ \E v \in Values : inserted[v] >= 2
    /\ N >= 2
    /\ Len(root) >= 3

(* C5. Count fidelity: len() is the number of insert calls made so far, and *)
(* it is 0 exactly when the container has no root node.                     *)
C5_CountFidelity ==
    fault = "none" =>
        /\ LinkedLists_len(this) = Total(inserted)
        /\ LinkedLists_len(this) = 0 <=> root = None

(* Several inserts were made, one of them of a value already held. *)
C5_Witness ==
    /\ fault = "none"
    /\ LinkedLists_len(this) >= 3
    /\ \E v \in Values : inserted[v] >= 2
    /\ Len(root) >= 2

(* C6. Capacity bound: every chain node's buffer holds at least 1 and at    *)
(* most N elements, and exactly its first len slots are written.            *)
C6_CapacityBound ==
    \A i \in 1..Len(root) :
        /\ BArrayVec_len(root[i]) >= 1
        /\ BArrayVec_len(root[i]) <= N
        /\ DOMAIN root[i].buf = 0..(N - 1)
        /\ \A k \in 0..(N - 1) :
              k < BArrayVec_len(root[i]) <=> root[i].buf[k] # Uninit

(* A full buffer of capacity above 1 was given one more element, which it   *)
(* took by evicting, and a later buffer is not full.                        *)
C6_Witness ==
    /\ N >= 2
    /\ Len(steps) >= 1 /\ steps[1] = "Evicted"
    /\ \E i \in 1..Len(root) : BArrayVec_len(root[i]) = N
    /\ \E i \in 1..Len(root) : BArrayVec_len(root[i]) < N

(* C7. Order-insensitivity: two fresh containers of one capacity given the  *)
(* same multiset of values, in two orders, hold the same head-to-tail       *)
(* sequence.                                                                *)
C7_OrderInsensitivity ==
    (fault = "none" /\ inserted = inserted_b) =>
        Concat(root) = Concat(root_b)

(* C8. Capacity configuration: constructing a buffer succeeds for every N   *)
(* with 0 < N < 256 and halts exactly when N is 0 or N exceeds 255.         *)
C8_CapacityConfiguration ==
    last.op = "new" =>
        /\ fault = "panic" <=> (N = 0 \/ N > 255)
        /\ (0 < N /\ N < 256) => (fault = "none" /\ deref(vec) = last.arg)

(* C9. Per-buffer order: after any sequence of buffer insert calls the      *)
(* initialised elements of the buffer are ascending.                        *)
C9_PerBufferOrder ==
    fault = "none" => IsAscending(deref(vec))

(* A full buffer has just taken an element between its ends, evicting. *)
C9_Witness ==
    /\ fault = "none"
    /\ last.op = "insert" /\ last.tag = "Ok" /\ last.val # None
    /\ N >= 3
    /\ last.arg[1] > min(last.old) /\ last.arg[1] < max(last.old)

(* C10. Buffer rejection: insert(item) is rejected with tag Greater exactly *)
(* when the buffer is full and item > max, with tag Less exactly when it is *)
(* full and item < min; the item is handed back and the buffer's contents   *)
(* and length are unchanged.                                                *)
C10_BufferRejection ==
    (fault = "none" /\ last.op = "insert") =>
        LET old  == last.old
            item == last.arg[1]
        IN  /\ (last.tag = "Err" /\ last.ord = "Greater")
                  <=> (BArrayVec_len(old) = N /\ item > max(old))
            /\ (last.tag = "Err" /\ last.ord = "Less")
                  <=> (BArrayVec_len(old) = N /\ item < min(old))
            /\ last.tag = "Err" => last.ord \in {"Less", "Greater"}
            /\ last.tag = "Err" => (last.val = Some(item) /\ vec = old)

(* A full buffer of more than one element has just rejected an item below   *)
(* its minimum.                                                             *)
C10_Witness ==
    /\ fault = "none"
    /\ last.op = "insert" /\ last.tag = "Err" /\ last.ord = "Less"
    /\ N >= 2
    /\ vec = last.old

(* The ascending sequence s with x put in, after the elements below x. *)
SortedInsert(s, x) ==
    LET below == Cardinality({i \in 1..Len(s) : s[i] < x})
    IN  SubSeq(s, 1, below) \o <<x>> \o SubSeq(s, below + 1, Len(s))

(* All but the last element of a non-empty sequence. *)
Front(s) == SubSeq(s, 1, Len(s) - 1)

(* C11. Buffer eviction: on a full buffer with min <= item <= max, insert   *)
(* returns the previous maximum, the length stays N, and the buffer holds   *)
(* the sorted sequence of its old contents plus item without its last       *)
(* element; on a buffer that is not full, insert returns "no eviction" and  *)
(* the buffer holds the sorted sequence of its old contents plus item.      *)
C11_BufferEviction ==
    (fault = "none" /\ last.op = "insert") =>
        LET old  == last.old
            item == last.arg[1]
        IN  /\ (BArrayVec_len(old) = N /\ min(old) <= item /\ item <= max(old))
                  => /\ last.tag = "Ok"
                     /\ last.val = Some(max(old))
                     /\ BArrayVec_len(vec) = N
                     /\ deref(vec) = Front(SortedInsert(deref(old), item))
            /\ BArrayVec_len(old) # N
                  => /\ last.tag = "Ok"
                     /\ last.val = None
                     /\ BArrayVec_len(vec) = BArrayVec_len(old) + 1
                     /\ deref(vec) = SortedInsert(deref(old), item)

(* A full buffer of three distinct elements has just taken an item below    *)
(* its maximum and handed the maximum back.                                 *)
C11_Witness ==
    /\ fault = "none"
    /\ last.op = "insert" /\ last.tag = "Ok"
    /\ BArrayVec_len(last.old) = N /\ N >= 3
    /\ min(last.old) < last.arg[1] /\ last.arg[1] < max(last.old)
    /\ last.val = Some(max(last.old))
    /\ max(vec) < max(last.old)

(* The four results of BArrayVec::find, by the names of its contract. *)
IsOutOfRange(r, ord) == r.tag = "Err" /\ r.ord = ord

IsFound(r) == r.tag = "Ok" /\ r.val # None

IsInRangeNotFound(r) == r.tag = "Ok" /\ r.val = None

(* C12. Buffer find: for every reachable buffer and every item, find        *)
(* returns OutOfRange(Greater) iff item > max, OutOfRange(Less) iff         *)
(* item < min, Found(i) with element i equal to item iff an equal element   *)
(* is stored, and InRangeNotFound iff min <= item <= max and no equal       *)
(* element is stored.                                                       *)
C12_BufferFind ==
    fault = "none" =>
        \A item \in 0..(MaxVal + 1) :
            \A r \in BArrayVec_find(vec, item) :
                LET stored == \E i \in 1..BArrayVec_len(vec) :
                                  deref(vec)[i] = item
                IN  /\ IsOutOfRange(r, "Greater") <=> item > max(vec)
                    /\ IsOutOfRange(r, "Less") <=> item < min(vec)
                    /\ IsFound(r) <=> stored
                    /\ IsFound(r) =>
                          /\ r.val[1] \in 0..(BArrayVec_len(vec) - 1)
                          /\ vec.buf[r.val[1]] = item
                    /\ IsInRangeNotFound(r) <=>
                          (min(vec) <= item /\ item <= max(vec) /\ ~stored)

(* A buffer that was inserted into holds a value twice and has a gap        *)
(* between its ends, so that all four results occur on it.                  *)
C12_Witness ==
    /\ fault = "none"
    /\ last.op = "insert"
    /\ BArrayVec_len(vec) >= 3
    /\ \E i \in 1..(BArrayVec_len(vec) - 1) : deref(vec)[i] = deref(vec)[i + 1]
    /\ \E item \in Values :
          \E r \in BArrayVec_find(vec, item) : IsInRangeNotFound(r)
    /\ \E item \in Values :
          \E r \in BArrayVec_find(vec, item) : IsOutOfRange(r, "Less")
    /\ \E item \in Values :
          \E r \in BArrayVec_find(vec, item) : IsOutOfRange(r, "Greater")

(* C13. Chain-level scenario (capacity 15): after main has inserted every   *)
(* integer from -50 to 49, then every integer from -5 to 14, then 2 fifty   *)
(* times, the value 2 is held 51 times in total across the node buffers.    *)
C13_DemoTwos ==
    pc = Len(DemoItems) =>
        /\ fault = "none"
        /\ Count(Concat(root), 2) = 51

(* C13, amended. After the same 170 inserts the value 2 is held 52 times:   *)
(* once from the first loop, once from the second, fifty times from the     *)
(* third.                                                                   *)
C13_DemoTwosAmended ==
    pc = Len(DemoItems) =>
        /\ fault = "none"
        /\ Count(Concat(root), 2) = 52
        /\ Count(DemoItems, 2) = 52

(* main has made all its 170 inserts, and the 2s lie in several nodes. *)
C13_Witness ==
    /\ pc = 170
    /\ fault = "none"
    /\ Cardinality({i \in 1..Len(root) : Count(deref(root[i]), 2) > 0}) >= 2

(* C14. Early exit of lookup is sound: in every reachable chain, a value    *)
(* strictly less than the minimum of some node's buffer is held by no later *)
(* node, so Node::find loses nothing by answering not-found on              *)
(* OutOfRange(Less) without descending.                                     *)
C14_EarlyExitSound ==
    fault = "none" =>
        \A i \in 1..Len(root) : \A x \in 0..(MaxVal + 1) :
            x < min(root[i]) =>
                \A j \in (i + 1)..Len(root) : Count(deref(root[j]), x) = 0

(* A lookup leaves through the Less exit of the second node of a chain of   *)
(* three or more, for a value lying between the first two nodes.            *)
C14_Witness ==
    /\ fault = "none"
    /\ Len(root) >= 3
    /\ \E x \in Values :
          /\ x > max(root[1])
          /\ x < min(root[2])
          /\ \A r \in BArrayVec_find(root[2], x) : IsOutOfRange(r, "Less")
          /\ LinkedLists_find(this, x) = {None}

(* What a step that is a call of LinkedLists::insert did. *)
InsertDone == len' = len + 1

ItemInserted == CHOOSE v \in Values : inserted'[v] = inserted[v] + 1

(* The answer of the last buffer the insert of this step went to. *)
LastStep == IF steps' = <<>> THEN "-" ELSE steps'[Len(steps')]

(* The item fell off the end of the chain: nothing held it back. *)
PastTail ==
    \/ root = None
    \/ Len(steps') = Len(root) /\ LastStep \in {"Greater", "Evicted"}

(* C15. Node creation condition: an insert creates a new chain node only    *)
(* when the element or an evicted maximum cascades past the last node, or   *)
(* when the inserted element is a new global minimum and is spliced in      *)
(* front of the head; no node is spliced in at an interior position.        *)
C15_NodeCreation ==
    [][(InsertDone /\ Len(root') > Len(root)) =>
          \/ PastTail
          \/ /\ steps' = <<"Less">>
             /\ \A i \in 1..Len(Concat(root)) : ItemInserted < Concat(root)[i]
             /\ deref(root'[1]) = <<ItemInserted>>]_vars

(* C15, amended. An insert creates at most one node, and exactly when (1)   *)
(* the element or an evicted maximum cascades past the last node (or the    *)
(* container is empty), or (2) a full node, the head or an interior one,    *)
(* rejects the item that reached it as less than its minimum; the new node  *)
(* then holds that item alone and stands at that node's position.  The     *)
(* splice is in front of the head exactly when the inserted element is a    *)
(* new global minimum met by a full head.                                   *)
C15_NodeCreationAmended ==
    [][InsertDone =>
          /\ Len(root') \in {Len(root), Len(root) + 1}
          /\ Len(root') > Len(root) <=> (PastTail \/ LastStep = "Less")
          /\ LastStep = "Less" =>
                LET k == Len(steps')
                IN  /\ k <= Len(root)
                    /\ is_full(root[k])
                    /\ BArrayVec_len(root'[k]) = 1
                    /\ min(root'[k]) < min(root[k])
                    /\ k = 1 =>
                          /\ deref(root'[1]) = <<ItemInserted>>
                          /\ \A i \in 1..Len(Concat(root)) :
                                ItemInserted < Concat(root)[i]
          /\ (root # None /\ is_full(root[1])
              /\ \A i \in 1..Len(Concat(root)) : ItemInserted < Concat(root)[i])
                => steps' = <<"Less">>]_vars

(* A node was spliced in behind the head: the head handed the item on and   *)
(* the full node behind it rejected it as Less.                             *)
C15_Witness ==
    /\ fault = "none"
    /\ N >= 2
    /\ Len(steps) >= 2
    /\ steps[Len(steps)] = "Less"
    /\ Len(root) > Len(steps)
    /\ BArrayVec_len(root[Len(steps)]) = 1

(* C16. Defensive panic is unreachable: for every capacity and every        *)
(* sequence of insert calls on a container, _insert is only ever called     *)
(* with index < len, so no call has panicked and none that can be made next *)
(* panics.                                                                  *)
C16_NoPanic ==
    /\ fault = "none"
    /\ \A item \in 0..(MaxVal + 1) :
          \A r \in LinkedLists_insert(this, item) : r.fault = "none"

(* One insert went through _insert on two full buffers in a row. *)
C16_Witness ==
    /\ fault = "none"
    /\ N >= 2
    /\ Len(steps) >= 2
    /\ steps[1] = "Evicted" /\ steps[2] = "Evicted"

(* The item that the insert of this step passed to Node::insert on node k:  *)
(* the inserted one, or the maximum the last evicting node before k gave up.*)
RECURSIVE ArrivedAt(_)
ArrivedAt(k) ==
    IF k = 1
    THEN ItemInserted
    ELSE IF steps'[k - 1] = "Evicted"
    THEN max(root[k - 1])
    ELSE ArrivedAt(k - 1)

(* C17. Splice-front effect: when the buffer of node k rejects the item     *)
(* passed to Node::insert with tag Less, then after the call node k holds   *)
(* exactly [item], its successor is a new node whose buffer is node k's     *)
(* previous buffer, that successor's successors are node k's previous       *)
(* successors, and the call touched no node before k: each is as its own    *)
(* buffer left it when it handed its item on.                               *)
C17_SpliceFront ==
    [][(InsertDone /\ LastStep = "Less") =>
          LET k    == Len(steps')
              item == ArrivedAt(k)
          IN  /\ item < min(root[k]) /\ is_full(root[k])
              /\ Len(root') = Len(root) + 1
              /\ root'[k] = Node_new(item).vec
              /\ deref(root'[k]) = <<item>>
              /\ root'[k + 1] = root[k]
              /\ SubSeq(root', k + 2, Len(root'))
                    = SubSeq(root, k + 1, Len(root))
              /\ \A i \in 1..(k - 1) :
                    /\ steps'[i] \in {"Greater", "Evicted"}
                    /\ steps'[i] = "Greater" => root'[i] = root[i]
                    /\ steps'[i] = "Evicted" =>
                          deref(root'[i])
                             = Front(SortedInsert(deref(root[i]), ArrivedAt(i)))
          ]_vars

(* A node with successors, reached through the head, was pushed one link    *)
(* deeper by a splice.                                                      *)
C17_Witness ==
    /\ fault = "none"
    /\ N >= 2
    /\ Len(steps) = 2
    /\ steps[2] = "Less"
    /\ Len(root) >= 4
    /\ BArrayVec_len(root[3]) = N

(* C18. No false positives in lookup: after any sequence of insert calls,   *)
(* if find(x) returns a position (contains(x) is true) then x was inserted  *)
(* at least once, and the position is one of a single node's buffer whose   *)
(* element there equals x.                                                  *)
C18_NoFalsePositive ==
    fault = "none" =>
        \A x \in 0..(MaxVal + 1) :
            /\ \A f \in LinkedLists_find(this, x) :
                  f # None =>
                      /\ x \in Values /\ inserted[x] > 0
                      /\ \E k \in 1..Len(root) :
                            /\ f[1] \in 0..(BArrayVec_len(root[k]) - 1)
                            /\ root[k].buf[f[1]] = x
            /\ \A c \in LinkedLists_contains(this, x) :
                  c => (x \in Values /\ inserted[x] > 0)

(* A lookup finds a value in a node behind the head, and another lookup,    *)
(* for a value that was never inserted, searches a buffer and finds nothing.*)
C18_Witness ==
    /\ fault = "none"
    /\ Len(root) >= 2
    /\ \E x \in Values :
          /\ x > max(root[1])
          /\ \E f \in LinkedLists_find(this, x) : f # None
    /\ \E x \in Values :
          /\ inserted[x] = 0
          /\ \E r \in BArrayVec_find(root[1], x) : IsInRangeNotFound(r)

(* C19. Chain growth is bounded per operation: every insert call increases  *)
(* the number of chain nodes by 0 or 1 and never decreases it; after k >= 1 *)
(* inserts the chain has between 1 and k nodes; and the cascade goes        *)
(* through the existing nodes in chain order, each at most once, stopping   *)
(* at the first that does not hand an item on.                              *)
C19_ChainGrowth ==
    [][InsertDone =>
          /\ Len(root') \in {Len(root), Len(root) + 1}
          /\ 1 <= Len(root')
          /\ Len(root') <= Total(inserted')
          /\ Len(steps') <= Len(root)
          /\ \A i \in 1..(Len(steps') - 1) :
                steps'[i] \in {"Greater", "Evicted"}
          /\ Len(steps') < Len(root) =>
                LastStep \in {"Absorbed", "Less"}]_vars

(* An insert went through every node of a chain of three or more and the    *)
(* last one took the item in, so the chain did not grow.                    *)
C19_Witness ==
    /\ fault = "none"
    /\ N >= 2
    /\ Len(root) >= 3
    /\ Len(steps) = Len(root)
    /\ steps[Len(steps)] = "Absorbed"
    /\ Len(root) < len

(* C20. End-insert helpers: on a buffer that is not full, _push(item)       *)
(* places item after the last element and _push_front(item) places item at  *)
(* index 0 with the existing elements shifted right by one in their         *)
(* previous order, each raising the length by 1; on a full buffer both      *)
(* return Err(item) with the same item and leave contents and length        *)
(* unchanged.                                                               *)
C20_EndInsertHelpers ==
    last.op \in {"push", "push_front"} =>
        /\ fault = "none"
        /\ IF ~is_full(last.old)
           THEN /\ last.tag = "Ok"
                /\ last.val = None
                /\ BArrayVec_len(vec) = BArrayVec_len(last.old) + 1
                /\ deref(vec) = IF last.op = "push"
                                THEN deref(last.old) \o last.arg
                                ELSE last.arg \o deref(last.old)
           ELSE /\ last.tag = "Err"
                /\ last.val = last.arg
                /\ vec = last.old

(* _push_front put a new element in front of two different ones. *)
C20_Witness ==
    /\ last.op = "push_front"
    /\ last.tag = "Ok"
    /\ BArrayVec_len(last.old) >= 2
    /\ deref(last.old)[1] # deref(last.old)[2]
    /\ deref(vec)[1] = last.arg[1]
    /\ deref(vec)[1] # deref(vec)[2]

====
